---- MODULE Spec2Model ----
(***************************************************************************)
(* Model of the PII-TEE API core: ToolkitService (anonymize / deanonymize  *)
(* orchestration over a session store and a detector) and QuoteService     *)
(* (signing identities, attestation quote, signing and verification).      *)
(***************************************************************************)
EXTENDS Integers, Sequences, FiniteSets, TLC

\* ---------------------------------------------------------------- bounds
MaxCalls == 2        \* requests accepted in one behaviour
MaxUuids == 2        \* ids uuid4() hands out in one behaviour
MaxOps == 3          \* signer method calls / attestation requests in one behaviour

\* ------------------------------------------------------------ vocabulary
None == "None"                       \* Python None
Procs == {1, 2}                      \* worker threads serving requests
Entities == {"Alice", "Bob"}         \* values the detector recognises
Words == {"hi"}                      \* tokens that are not PII
PH == <<"<PERSON_0>", "<PERSON_1>">>
Placeholders == {PH[i] : i \in 1..Len(PH)}
ClientIds == {"invalid-session-id"}  \* ids a client invents itself
UuidPool == <<"uuid-1", "uuid-2", "uuid-3">>
Keys == {"k1", "k2"}                 \* private keys a generator can draw
\* the key of the signer one answer is built with: that signer lives for
\* the one call and no answer is compared with another's key
AnswerKeys == {"k1"}

ED25519 == "ed25519"
ECDSA == "ecdsa"
Methods == {ECDSA, ED25519, "rsa"}   \* values of the SIGNING_METHOD setting

\* contents handed to the signer: answer texts
Contents == {<<"hi">>, <<"<PERSON_0>">>}

\* request texts, as token sequences; the endpoints reject the empty text
AnonTexts == {<<"Alice">>, <<"Bob", "Alice">>, <<"hi">>}
DeanonTexts == {<<PH[1]>>, <<PH[1], PH[2]>>, <<"hi">>}

VARIABLES
    store,           \* session id -> entity mapping, None when absent
    call,            \* per worker: the anonymize call in flight and its locals
    SIGNING_METHOD,  \* module-level setting read from the environment
    generated,       \* number of ids handed out by uuid4()
    ncalls,          \* requests accepted so far
    last,            \* the request answered most recently and its answer
    issued,          \* per session id: <<value, placeholder>> pairs returned
    returned,        \* session ids that responses have returned
    created,         \* per session id: the text whose answer created it
    write_lost,      \* redis.set has returned a falsy result
    signer,          \* a QuoteService object and its fields
    sres,            \* the signer method called most recently and its result
    lifecycle,       \* the signer's identity state and whether an init() of
                     \* it has ever returned normally
    nops,            \* method calls and attestation requests so far
    attest,          \* per worker: the attestation request in flight, and
                     \* the quote of the response to the one before
    published,       \* <<signing method, public key>> pairs given to clients
    overlapped,      \* two attestation requests have been in flight at once
    initpc,          \* the init() a thread is running on the signer: the
                     \* assignment it makes next
    vres,            \* the verification request served most recently
    client,          \* the client application: its mode, its session id,
                     \* which of its inputs are disabled
    cres             \* the submission the client handled most recently

core_vars == <<store, call, generated, ncalls, last, issued, returned,
               created, write_lost>>
signer_vars == <<signer, sres, lifecycle, initpc>>
process_vars == <<attest, published, overlapped>>
client_vars == <<client, cres>>
attestation_vars == <<signer, sres, lifecycle, initpc, nops, attest,
                      published, overlapped, vres>>
vars == <<store, call, SIGNING_METHOD, generated, ncalls, last, issued,
          returned, created, write_lost, signer, sres, lifecycle, initpc,
          nops, attest, published, overlapped, vres, client, cres>>

SessionIds == ClientIds \cup {UuidPool[i] : i \in 1..Len(UuidPool)} \cup {""}

\* ------------------------------------------------- strings and encodings
\* Text values that are not plain tags (keys, signatures, quotes, mappings)
\* are tuples of tags; Null is Python None in such a slot.
Null == <<"None">>

Tail1(s) == SubSeq(s, 2, Len(s))
StartsWith(s, t) == Len(s) >= 1 /\ s[1] = t

\* str.lower(): letter case is carried by the address tag and its prefix
LowerTag(t) == IF t \in {"Addr", "ADDR", "addr"} THEN "addr"
               ELSE IF t \in {"0x", "0X"} THEN "0x" ELSE t
\* a comparison that keeps the letter case
Lower_Exact(s) == s

Lower(s) == [i \in DOMAIN s |-> LowerTag(s[i])]

\* bytes.hex() / bytes.fromhex(): hex() writes lower-case digits ("hex"),
\* fromhex takes digits of either case ("HEX": the same digits in upper
\* case) and raises on text that is not hex
Hex(bytes) == <<"hex">> \o bytes
IsHex(s) == Len(s) >= 1 /\ s[1] \in {"hex", "HEX"}
FromHex(s) == Tail1(s)

\* base64.b64encode(..).decode() / base64.b64decode(): the decoder drops
\* the unused low bits of the last digit ("b64~": the same text with one
\* of those bits set) and raises on text that is not base64
B64Encode(bytes) == <<"b64">> \o bytes
IsB64(s) == Len(s) >= 1 /\ s[1] \in {"b64", "b64~"}
B64Decode(s) == Tail1(s)

Utf8(content) == <<"utf8">> \o content

\* eth_account encode_defunct(text=..): the domain-prefixed message
encode_defunct(content) == <<"\\x19Ethereum Signed Message">> \o Utf8(content)

\* ------------------------------------------------------------ primitives
\* Ethereum account of a private key: checksum-cased address
Address(k) == <<"0x", "Addr", k>>
\* Account.sign_message(..).signature : 65 bytes binding key and message
EcdsaSignBytes(k, message) == <<"sig65", k>> \o message
IsSig65(b) == Len(b) >= 2 /\ b[1] = "sig65"
\* Account.recover_message: the signer's address for the message that was
\* signed, some unrelated address for any other message
\* recovery that does not look at the message
recover_message_AnyMessage(message, b) == Address(b[2])

recover_message(message, b) ==
    IF SubSeq(b, 3, Len(b)) = message THEN Address(b[2])
    ELSE <<"0x", "Addr", "unrelated">>

\* Ed25519: raw public key bytes and 64-byte signatures
Ed25519PublicBytes(k) == <<"pub32", k>>
IsPub32(b) == Len(b) = 2 /\ b[1] = "pub32"
Ed25519SignBytes(k, message) == <<"sig64", k>> \o message
Ed25519VerifyBytes(pub, b, message) ==
    /\ Len(b) >= 2 /\ b[1] = "sig64"
    /\ pub = Ed25519PublicBytes(b[2])
    /\ SubSeq(b, 3, Len(b)) = message

\* ---------------------------------------------------------- QuoteService
\* Outcomes of the two trust-anchor requests: answered, socket missing
\* (FileNotFoundError), or any other failure.
AnchorOutcomes == {"ok", "absent", "error"}

\* QuoteService.__init__
QuoteService(signing_method) ==
    [signing_method  |-> IF signing_method \in {None, ""} THEN SIGNING_METHOD
                         ELSE signing_method,
     signing_address |-> Null,
     intel_quote     |-> Null,
     event_log       |-> Null,
     info            |-> Null,
     public_key      |-> Null,
     raw_acct        |-> None,
     ed25519_key     |-> None]

_get_quote_data(self) ==
    [signing_address |-> self.signing_address,
     public_key      |-> self.public_key,
     intel_quote     |-> self.intel_quote,
     event_log       |-> self.event_log,
     info            |-> self.info,
     signing_method  |-> self.signing_method]

\* _init_ed25519 publishing the hex form of the key as the public key
_init_ed25519_HexKey(self, k) ==
    [self EXCEPT !.ed25519_key = k,
                 !.public_key = Hex(Ed25519PublicBytes(k)),
                 !.signing_address = Hex(Ed25519PublicBytes(k))]

_init_ed25519(self, k) ==
    [self EXCEPT !.ed25519_key = k,
                 !.public_key = B64Encode(Ed25519PublicBytes(k)),
                 !.signing_address = Hex(Ed25519PublicBytes(k))]

_init_ecdsa(self, k) ==
    [self EXCEPT !.raw_acct = k,
                 !.signing_address = Address(k),
                 !.public_key = Address(k)]

\* the n-th assignment to self of _init_ed25519 (lines 140, 148, 149) and
\* of _init_ecdsa (lines 158, 159, 164), k being the key generated
_init_ed25519_assign(self, k, n) ==
    CASE n = 1 -> [self EXCEPT !.ed25519_key = k]
      [] n = 2 -> [self EXCEPT !.public_key =
                       B64Encode(Ed25519PublicBytes(self.ed25519_key))]
      [] n = 3 -> [self EXCEPT !.signing_address =
                       Hex(Ed25519PublicBytes(self.ed25519_key))]

_init_ecdsa_assign(self, k, n) ==
    CASE n = 1 -> [self EXCEPT !.raw_acct = k]
      [] n = 2 -> [self EXCEPT !.signing_address = Address(self.raw_acct)]
      [] n = 3 -> [self EXCEPT !.public_key = self.signing_address]

_init_assign(self, k, n) ==
    IF self.signing_method = ED25519 THEN _init_ed25519_assign(self, k, n)
    ELSE _init_ecdsa_assign(self, k, n)

\* _get_quote whose development fallback returns no quote
_get_quote_NoMock(public_key, outcome) ==
    CASE outcome = "ok" ->
           [raised |-> None, quote |-> <<"tdx_quote">> \o public_key,
            event_log |-> <<"event_log">>]
      [] outcome = "absent" ->
           [raised |-> None, quote |-> Null, event_log |-> <<"mock", "development">>]
      [] OTHER ->
           [raised |-> "Exception", quote |-> Null, event_log |-> Null]

\* the mock quote given without its tag
_get_quote_Untagged(public_key, outcome) ==
    CASE outcome \in {"ok", "absent"} ->
           [raised |-> None, quote |-> <<"tdx_quote">> \o public_key,
            event_log |-> <<"event_log">>]
      [] OTHER ->
           [raised |-> "Exception", quote |-> Null, event_log |-> Null]

\* _get_quote: [raised, quote, event_log]
_get_quote(public_key, outcome) ==
    CASE outcome = "ok" ->
           [raised |-> None, quote |-> <<"tdx_quote">> \o public_key,
            event_log |-> <<"event_log">>]
      [] outcome = "absent" ->
           [raised |-> None, quote |-> <<"MOCK_QUOTE_">> \o B64Encode(public_key),
            event_log |-> <<"mock", "development">>]
      [] OTHER ->
           [raised |-> "Exception", quote |-> Null, event_log |-> Null]

\* _get_info: [raised, info]
_get_info(self, outcome) ==
    CASE outcome = "ok" ->
           [raised |-> None, info |-> <<"tappd_info">>]
      [] outcome = "absent" ->
           [raised |-> None, info |-> <<"mock", "development">> \o self.public_key]
      [] OTHER ->
           [raised |-> "Exception", info |-> Null]

\* the early return of init dropped
Cached_Never(self, force) == FALSE

\* init, line 50: the identity is there and no reinitialization is forced
Cached(self, force) == self.signing_address # Null /\ ~force

\* only the empty tag taken for unsupported
Unsupported_OnlyEmpty(signing_method) == signing_method = ""

\* init, lines 55-63, and sign_content, lines 104-112: the else branch
Unsupported(signing_method) == signing_method \notin {ED25519, ECDSA}

\* QuoteService.init: [self, raised, ret, keygen, anchor].  k is the key
\* the generator draws, qo and io the outcomes of the quote and the info
\* request; keygen tells whether a key was generated, anchor how many
\* requests went to the trust anchor.
\* a failed quote request sent once more
AnchorRequests_Retry(quote_raised) ==
    IF quote_raised # None THEN <<"quote", "quote">> ELSE <<"quote", "info">>

\* init, lines 65-72: the requests sent to the trust anchor, in order; the
\* info request follows a quote request that returned
AnchorRequests(quote_raised) ==
    IF quote_raised # None THEN <<"quote">> ELSE <<"quote", "info">>

init(self, force, k, qo, io) ==
    IF Cached(self, force)
    THEN [self |-> self, raised |-> None, ret |-> _get_quote_data(self),
          keygen |-> FALSE, anchor |-> 0, requests |-> << >>]
    ELSE IF Unsupported(self.signing_method)
    THEN [self |-> self, raised |-> "ValueError", ret |-> Null,
          keygen |-> FALSE, anchor |-> 0, requests |-> << >>]
    ELSE LET s1 == IF self.signing_method = ED25519 THEN _init_ed25519(self, k)
                   ELSE _init_ecdsa(self, k)
             q  == _get_quote(s1.public_key, qo)
             s2 == [s1 EXCEPT !.intel_quote = q.quote, !.event_log = q.event_log]
             i  == _get_info(s2, io)
             s3 == [s2 EXCEPT !.info = i.info]
         IN  IF q.raised # None
             THEN [self |-> s1, raised |-> q.raised, ret |-> Null,
                   keygen |-> TRUE,
                   anchor |-> Len(AnchorRequests(q.raised)),
                   requests |-> AnchorRequests(q.raised)]
             ELSE IF i.raised # None
             THEN [self |-> s2, raised |-> i.raised, ret |-> Null,
                   keygen |-> TRUE,
                   anchor |-> Len(AnchorRequests(q.raised)),
                   requests |-> AnchorRequests(q.raised)]
             ELSE [self |-> s3, raised |-> None, ret |-> _get_quote_data(s3),
                   keygen |-> TRUE,
                   anchor |-> Len(AnchorRequests(q.raised)),
                   requests |-> AnchorRequests(q.raised)]

\* get_public_key without its call of init
get_public_key_NoInit(self, k, qo, io) ==
    [self |-> self, raised |-> None, public_key |-> self.public_key,
     signing_method |-> self.signing_method,
     signing_address |-> self.signing_address,
     keygen |-> FALSE, anchor |-> 0, requests |-> << >>]

\* QuoteService.get_public_key: [self, raised, public_key, signing_method,
\* signing_address, keygen, anchor]; `not self.public_key` sends it to init
get_public_key(self, k, qo, io) ==
    LET r == IF self.public_key = Null THEN init(self, FALSE, k, qo, io)
             ELSE [self |-> self, raised |-> None, keygen |-> FALSE,
                   anchor |-> 0, requests |-> << >>]
    IN  [self |-> r.self, raised |-> r.raised,
         public_key |-> IF r.raised = None THEN r.self.public_key ELSE Null,
         signing_method |-> IF r.raised = None THEN r.self.signing_method
                            ELSE None,
         signing_address |-> IF r.raised = None THEN r.self.signing_address
                             ELSE Null,
         keygen |-> r.keygen, anchor |-> r.anchor, requests |-> r.requests]

_sign_ed25519(self, content) ==
    Hex(Ed25519SignBytes(self.ed25519_key, Utf8(content)))

\* _sign_ecdsa signing the bare text instead of the prefixed message
_sign_ecdsa_Bare(self, content) ==
    <<"0x">> \o Hex(EcdsaSignBytes(self.raw_acct, Utf8(content)))

_sign_ecdsa(self, content) ==
    <<"0x">> \o Hex(EcdsaSignBytes(self.raw_acct, encode_defunct(content)))

\* QuoteService.sign_content: [raised, signature]; fault is a failure
\* inside the signing library
sign_content(self, content, fault) ==
    IF Unsupported(self.signing_method)
    THEN [raised |-> "ValueError", signature |-> Null]
    ELSE IF fault \/ (self.signing_method = ED25519 /\ self.ed25519_key = None)
                  \/ (self.signing_method = ECDSA /\ self.raw_acct = None)
    THEN [raised |-> "Exception", signature |-> Null]
    ELSE [raised |-> None,
          signature |-> IF self.signing_method = ED25519
                        THEN _sign_ed25519(self, content)
                        ELSE _sign_ecdsa(self, content)]

_verify_ed25519(content, signature, public_key_str) ==
    /\ IsB64(public_key_str)
    /\ IsPub32(B64Decode(public_key_str))
    /\ IsHex(signature)
    /\ Ed25519VerifyBytes(B64Decode(public_key_str), FromHex(signature),
                          Utf8(content))

_verify_ecdsa(content, signature, public_key_str) ==
    LET sig == IF StartsWith(signature, "0x") THEN Tail1(signature) ELSE signature
    IN  /\ IsHex(sig)
        /\ IsSig65(FromHex(sig))
        /\ Lower(recover_message(encode_defunct(content), FromHex(sig)))
             = Lower(public_key_str)

\* the exception raised inside the try block of _verify_ed25519 /
\* _verify_ecdsa, None when the block runs to its return
_verify_ed25519_error(content, signature, public_key_str) ==
    CASE ~IsB64(public_key_str) -> "binascii.Error"
      [] ~IsPub32(B64Decode(public_key_str)) -> "ValueError"
      [] ~IsHex(signature) -> "ValueError"
      [] ~Ed25519VerifyBytes(B64Decode(public_key_str), FromHex(signature),
                             Utf8(content)) -> "InvalidSignature"
      [] OTHER -> None

_verify_ecdsa_error(content, signature, public_key_str) ==
    LET sig == IF StartsWith(signature, "0x") THEN Tail1(signature) ELSE signature
    IN  CASE ~IsHex(sig) -> "ValueError"
          [] ~IsSig65(FromHex(sig)) -> "BadSignature"
          [] OTHER -> None

\* a handler that logs and raises again
Handled_Reraise(error) == error

\* `except Exception: ... return False` (lines 276-278, 305-310, 346-348):
\* the exception that leaves the method
Handled(error) == None

\* verification against the key the signer itself holds
verify_signature_OwnKey(self, content, signature, public_key) ==
    CASE self.signing_method = ED25519 ->
           _verify_ed25519(content, signature, self.public_key)
      [] self.signing_method = ECDSA ->
           _verify_ecdsa(content, signature, self.public_key)
      [] OTHER -> FALSE

\* QuoteService.verify_signature: every exception is coerced to False
verify_signature(self, content, signature, public_key) ==
    CASE self.signing_method = ED25519 -> _verify_ed25519(content, signature, public_key)
      [] self.signing_method = ECDSA -> _verify_ecdsa(content, signature, public_key)
      [] OTHER -> FALSE

\* verify_signature endpoint (main.py): a signer built for the tag of the
\* request verifies; [raised, is_valid]
verify_signature_endpoint(content, signature, public_key, signing_method) ==
    LET quote_service == QuoteService(signing_method)
        error == CASE quote_service.signing_method = ED25519 ->
                        _verify_ed25519_error(content, signature, public_key)
                   [] quote_service.signing_method = ECDSA ->
                        _verify_ecdsa_error(content, signature, public_key)
                   [] OTHER -> None
    IN  [raised |-> Handled(error),
         is_valid |-> IF Handled(error) # None THEN FALSE
                      ELSE verify_signature(quote_service, content, signature,
                                            public_key)]

\* ------------------------------------------------------- Detector contract
\* The detector keeps one placeholder per original value: the mapping is
\* the tuple of original values, the value at position i standing behind
\* placeholder PH[i].
HasValue(m, v) == \E i \in 1..Len(m) : m[i] = v
IndexOf(m, v) == CHOOSE i \in 1..Len(m) : m[i] = v
PlaceholderIndex(t) == CHOOSE i \in 1..Len(PH) : PH[i] = t

RECURSIVE detect(_, _, _)
detect(text, mapping, out) ==
    IF text = << >> THEN [text |-> out, mapping |-> mapping]
    ELSE LET t == Head(text)
         IN  IF t \notin Entities THEN detect(Tail(text), mapping, Append(out, t))
             ELSE IF HasValue(mapping, t)
             THEN detect(Tail(text), mapping, Append(out, PH[IndexOf(mapping, t)]))
             ELSE detect(Tail(text), Append(mapping, t),
                         Append(out, PH[Len(mapping) + 1]))

\* PresidioService.anonymize_text(session_id, text, language, entity_mappings)
anonymize_text(text, entity_mappings) ==
    detect(text, IF entity_mappings = Null THEN << >> ELSE entity_mappings, << >>)

\* PresidioService.deanonymize_text(session_id, text, entity_mappings)
deanonymize_text(text, entity_mappings) ==
    [i \in 1..Len(text) |->
        IF text[i] \in Placeholders /\ PlaceholderIndex(text[i]) <= Len(entity_mappings)
        THEN entity_mappings[PlaceholderIndex(text[i])]
        ELSE text[i]]

\* ------------------------------------------------------------ state store
StoreOutcomes == {"ok", "false", "raise"}   \* redis.set: truthy, falsy, raises
RaiseKinds == {"ValueError", "Exception"}   \* ValueError or any other class

\* RedisStateService.get_state
get_state(session_id) == store[session_id]

\* a write that replaces the whole store by the one entry
set_state_Flush(session_id, entity_mappings, result) ==
    IF result = "ok"
    THEN [s \in SessionIds |-> IF s = session_id THEN entity_mappings ELSE Null]
    ELSE store

\* a write that is not acknowledged dropping the session
set_state_ClearsOnFailure(session_id, entity_mappings, result) ==
    [store EXCEPT ![session_id] = IF result = "ok" THEN entity_mappings
                                  ELSE Null]

\* RedisStateService.set_state: the new store contents; a falsy result of
\* redis.set is logged and the method returns normally
set_state(session_id, entity_mappings, result) ==
    IF result = "ok" THEN [store EXCEPT ![session_id] = entity_mappings]
    ELSE store

\* --------------------------------------------------------- ToolkitService
\* A request and its answer: what the client sent, what the service did
\* (lookup: what get_state gave; trace: the collaborators it invoked, in
\* order; attest_failure: the exception the attestation layer raised) and
\* the HTTP response.
NoResponse ==
    [op |-> None, req_text |-> Null, req_session_id |-> None,
     lookup |-> None, read |-> Null, set_result |-> None, trace |-> << >>,
     attest_failure |-> None,
     status |-> 0, raised |-> None, session_id |-> None, text |-> Null,
     quote |-> Null, signature |-> Null, public_key |-> Null,
     signing_method |-> None]

IdleCall ==
    [pc |-> "idle", text |-> Null, req_session_id |-> None,
     session_id |-> None, lookup |-> None, entity_mappings |-> Null,
     anonymized_text |-> Null, new_entity_mappings |-> Null, trace |-> << >>]

Lookup(entity_mappings) == IF entity_mappings = Null THEN "absent" ELSE "found"

\* ToolkitService._generate_quote_and_signature without its handler: an
\* exception of the attestation layer leaves the method
_generate_quote_and_signature_Unhandled(content, k, qo, io, fault) ==
    LET r == init(QuoteService(None), FALSE, k, qo, io)
        sg == sign_content(r.self, content, fault)
        escaped(e) == [quote |-> Null, signature |-> Null,
                       public_key |-> Null, signing_method |-> None,
                       raised |-> e, failure |-> e]
    IN  IF r.raised # None THEN escaped(r.raised)
        ELSE IF sg.raised # None THEN escaped(sg.raised)
        ELSE [quote |-> r.ret.intel_quote, signature |-> sg.signature,
              public_key |-> r.ret.public_key,
              signing_method |-> r.ret.signing_method,
              raised |-> None, failure |-> None]

\* the content signed by a signer that is not the one the quote was
\* requested for
_generate_quote_and_signature_Shared(content, k, qo, io, fault) ==
    LET r == init(QuoteService(None), FALSE, k, qo, io)
        shared == init(QuoteService(None), FALSE, "k1", qo, io)
        sg == sign_content(shared.self, content, fault)
        fallback_result(e) == [quote |-> Null, signature |-> Null,
                               public_key |-> Null, signing_method |-> None,
                               raised |-> None, failure |-> e]
    IN  IF r.raised # None THEN fallback_result(r.raised)
        ELSE IF sg.raised # None THEN fallback_result(sg.raised)
        ELSE [quote |-> r.ret.intel_quote, signature |-> sg.signature,
              public_key |-> r.ret.public_key,
              signing_method |-> r.ret.signing_method,
              raised |-> None, failure |-> None]

\* ToolkitService._generate_quote_and_signature: the dictionary it returns,
\* raised: an exception leaving it, failure: the exception of the
\* attestation layer that its handler caught and logged
_generate_quote_and_signature(content, k, qo, io, fault) ==
    LET r == init(QuoteService(None), FALSE, k, qo, io)
        sg == sign_content(r.self, content, fault)
        fallback_result(e) == [quote |-> Null, signature |-> Null,
                               public_key |-> Null, signing_method |-> None,
                               raised |-> None, failure |-> e]
    IN  IF r.raised # None THEN fallback_result(r.raised)
        ELSE IF sg.raised # None THEN fallback_result(sg.raised)
        ELSE [quote |-> r.ret.intel_quote, signature |-> sg.signature,
              public_key |-> r.ret.public_key,
              signing_method |-> r.ret.signing_method,
              raised |-> None, failure |-> None]

\* the answers _generate_quote_and_signature can give for one content,
\* over the keys the generator can draw and the outcomes of the anchor
\* requests and of the signing library
QuoteData(content) ==
    {_generate_quote_and_signature(content, k, qo, io, fault) :
        k \in AnswerKeys, qo \in AnchorOutcomes, io \in AnchorOutcomes,
        fault \in BOOLEAN}

\* the same when the call gets as far as the signer, no answer otherwise
NoQuoteData ==
    [quote |-> Null, signature |-> Null, public_key |-> Null,
     signing_method |-> None, raised |-> None, failure |-> None]
QuoteDataIf(reached, content) ==
    IF reached THEN QuoteData(content) ELSE {NoQuoteData}

\* the anonymize endpoint answering 200 whatever happened
AnonymizeStatus_Ok(raised) == 200

\* anonymize_endpoint / deanonymize_endpoint: the HTTP status for an
\* exception leaving the service
AnonymizeStatus(raised) == IF raised = None THEN 200 ELSE 500
DeanonymizeStatus(raised) ==
    IF raised = None THEN 200 ELSE IF raised = "ValueError" THEN 404 ELSE 500

\* ids a client can put in a request: its own inventions and the ids that
\* earlier responses returned
KnownIds == ClientIds \cup returned

\* uuid.uuid4(): an id no earlier call of uuid4 returned
uuid4 == UuidPool[generated + 1]

\* <<value, placeholder>> pairs of a request text and its anonymized text
Pairs(text, out) ==
    {<<text[i], out[i]>> : i \in {j \in DOMAIN text : text[j] \in Entities}}

\* where a collaborator of the service fails, if at all, and how
AnonymizeFailures ==
    {<<"none", None>>} \cup ({"get_state", "anonymize_text"} \X RaiseKinds)
DeanonymizeFailures ==
    {<<"none", None>>} \cup ({"get_state", "deanonymize_text"} \X RaiseKinds)

\* a test for None only
NoSessionId_OnlyNone(session_id) == session_id = None

\* anonymize, lines 28-36: `if not session_id` takes None and "" alike
NoSessionId(session_id) == session_id \in {None, ""}

\* the detector called without the mapping that was read
DetectorInput_Dropped(entity_mappings) == Null

\* anonymize, lines 41-43: the mapping handed to the detector
DetectorInput(entity_mappings) == entity_mappings

\* the session test taken for an emptiness test
SessionNotFound_Empty(entity_mappings) == entity_mappings = << >>

\* deanonymize, line 82: `if entity_mappings is None`
SessionNotFound(entity_mappings) == entity_mappings = Null

\* ToolkitService.anonymize up to the detector's answer (lines 28-46), as
\* the worker's locals; f tells which collaborator raises
anonymize_detect(text, sid, f) ==
    LET fresh == NoSessionId(sid)
        entity_mappings == IF fresh \/ f[1] = "get_state" THEN Null
                           ELSE get_state(sid)
        d == anonymize_text(text, DetectorInput(entity_mappings))
        t1 == IF fresh THEN <<"uuid4">> ELSE <<"get_state">>
        failed == f[1] # "none"
    IN  [pc |-> IF failed THEN "raised" ELSE "anon_set",
         text |-> text, req_session_id |-> sid,
         session_id |-> IF fresh THEN uuid4 ELSE sid,
         lookup |-> IF fresh THEN None
                    ELSE IF f[1] = "get_state" THEN "raised"
                    ELSE Lookup(entity_mappings),
         entity_mappings |-> entity_mappings,
         anonymized_text |-> IF failed THEN Null ELSE d.text,
         new_entity_mappings |-> IF failed THEN Null ELSE d.mapping,
         trace |-> IF f[1] = "get_state" THEN t1 ELSE Append(t1, "anonymize_text")]

\* the answer to an anonymize request whose service call raised
AnonymizeRaised(c, kind, trace) ==
    [NoResponse EXCEPT !.op = "anonymize", !.req_text = c.text,
                       !.req_session_id = c.req_session_id,
                       !.lookup = c.lookup, !.read = c.entity_mappings,
                       !.trace = trace, !.raised = kind,
                       !.status = AnonymizeStatus(kind)]

\* ToolkitService.anonymize from the store write to the answer (lines
\* 48-72), as the answer; result is what redis.set gives
anonymize_answer(c, result, quote_data) ==
    IF result = "raise"
    THEN [AnonymizeRaised(c, "Exception", Append(c.trace, "set_state"))
             EXCEPT !.set_result = result]
    ELSE IF quote_data.raised # None
    THEN [AnonymizeRaised(c, quote_data.raised, c.trace \o <<"set_state", "sign">>)
             EXCEPT !.set_result = result,
                    !.attest_failure = quote_data.failure]
    ELSE [NoResponse EXCEPT
             !.op = "anonymize", !.req_text = c.text,
             !.req_session_id = c.req_session_id,
             !.lookup = c.lookup, !.read = c.entity_mappings,
             !.set_result = result,
             !.trace = c.trace \o <<"set_state", "sign">>,
             !.attest_failure = quote_data.failure,
             !.status = AnonymizeStatus(None),
             !.session_id = c.session_id,
             !.text = c.anonymized_text,
             !.quote = quote_data.quote,
             !.signature = quote_data.signature,
             !.public_key = quote_data.public_key,
             !.signing_method = quote_data.signing_method]

\* ToolkitService.deanonymize (lines 74-117) behind deanonymize_endpoint,
\* as the answer; quote_data is what _generate_quote_and_signature gives
\* for the restored text
deanonymize(text, sid, f, quote_data) ==
    LET entity_mappings == get_state(sid)
        deanonymized_text == deanonymize_text(text, entity_mappings)
        request == [NoResponse EXCEPT !.op = "deanonymize", !.req_text = text,
                                      !.req_session_id = sid]
        failed(kind, lookup, trace) ==
            [request EXCEPT !.lookup = lookup, !.trace = trace, !.raised = kind,
                            !.status = DeanonymizeStatus(kind)]
    IN  IF f[1] = "get_state"
        THEN failed(f[2], "raised", <<"get_state">>)
        ELSE IF SessionNotFound(entity_mappings)
        THEN failed("ValueError", Lookup(entity_mappings), <<"get_state">>)
        ELSE IF f[1] = "deanonymize_text"
        THEN [failed(f[2], Lookup(entity_mappings),
                     <<"get_state", "deanonymize_text">>)
                 EXCEPT !.read = entity_mappings]
        ELSE IF quote_data.raised # None
        THEN [failed(quote_data.raised, Lookup(entity_mappings),
                     <<"get_state", "deanonymize_text", "sign">>)
                 EXCEPT !.read = entity_mappings,
                        !.attest_failure = quote_data.failure]
        ELSE [request EXCEPT
                 !.lookup = Lookup(entity_mappings),
                 !.read = entity_mappings,
                 !.trace = <<"get_state", "deanonymize_text", "sign">>,
                 !.attest_failure = quote_data.failure,
                 !.status = DeanonymizeStatus(None),
                 !.text = deanonymized_text,
                 !.quote = quote_data.quote,
                 !.signature = quote_data.signature,
                 !.public_key = quote_data.public_key,
                 !.signing_method = quote_data.signing_method]

\* ------------------------------------------------- signer and endpoints
\* A method call on the signer and its result: the state the identity was
\* in before the call (was), the arguments, the exception that left the
\* call, the values returned, and what the call did on its way.
NoSignerResult ==
    [op |-> None, was |-> None, force |-> FALSE, content |-> Null,
     fault |-> FALSE, reachable |-> FALSE, raised |-> None,
     public_key |-> Null, signing_address |-> Null, intel_quote |-> Null,
     signing_method |-> None, signature |-> Null,
     keygen |-> FALSE, anchor |-> 0, requests |-> << >>,
     is_valid |-> FALSE]

\* an attestation request of a worker: the key drawn for it and the content
IdleAttest ==
    [pc |-> "idle", k |-> None, content |-> Null,
     quote |-> Null, quote_from |-> None, text |-> Null, signature |-> Null,
     public_key |-> Null, signing_method |-> None]

\* a verification request and its answer
NoVerification ==
    [origin |-> None, kind |-> None, content |-> Null, signature |-> Null,
     public_key |-> Null, signing_method |-> None, raised |-> None,
     is_valid |-> FALSE]

NewIdentity == [state |-> "Uninitialized", completed |-> FALSE]

AttestationIdle ==
    /\ signer = QuoteService(None)
    /\ sres = NoSignerResult
    /\ lifecycle = NewIdentity
    /\ initpc = "idle"
    /\ nops = 0
    /\ attest = [p \in Procs |-> IdleAttest]
    /\ published = {}
    /\ overlapped = FALSE
    /\ vres = NoVerification

\* ------------------------------------------------------- the client app
\* what a request of the client to the API comes to: the HTTP status of
\* the response, or no response at all
HttpOutcomes == {"200", "404", "500", "unreachable"}
LlmOutcomes == {"ok", "error"}

\* requests.Response.__bool__: a response is true when its status is
\* below 400
ResponseBool(status) == status = "200"

\* `e.response and e.response.status_code == 404` (lines 269, 321, 369)
SessionExpired(status) == ResponseBool(status) /\ status = "404"

\* what requests.post / raise_for_status raise for an outcome
RequestError(status) ==
    CASE status = "200" -> None
      [] status = "unreachable" -> "ConnectionError"
      [] OTHER -> "HTTPError"

\* InputApp.__init__ and compose: no session, the person input enabled,
\* the LLM input disabled; sessions counts the ids the API has handed out
\* to this client, entries the verification entries shown
InputApp(mode) ==
    [mode |-> mode, _session_id |-> None, person_disabled |-> FALSE,
     llm_disabled |-> TRUE, sessions |-> 0, entries |-> 0]
NoClient == [InputApp(None) EXCEPT !.person_disabled = TRUE]

\* a submission and how it was handled: the input it came from, the
\* outcomes of the requests made for it (None: not made), the exception
\* the outer handler caught, what was written to the person's log, and
\* whether the input was cleared
NoSubmission ==
    [input |-> None, anonymize |-> None, retry |-> None, llm |-> None,
     deanonymize |-> None, raised |-> None, notice |-> None,
     cleared |-> FALSE]

\* the client after an anonymize response 200: the API returns the id it
\* was sent, or a new one when it was sent none
Anonymized200(self) ==
    IF self._session_id = None
    THEN [self EXCEPT !._session_id = UuidPool[self.sessions + 1],
                      !.sessions = @ + 1]
    ELSE self

\* the hand-over that enables the LLM input and leaves the person input
\* enabled
ManualHandOver_BothEnabled(self) == [self EXCEPT !.llm_disabled = FALSE]

\* handle, lines 354-355: the turn goes to the LLM input
ManualHandOver(self) ==
    [self EXCEPT !.llm_disabled = FALSE, !.person_disabled = TRUE]

\* handle, lines 374-375 and 404-405: the turn goes back to the person
HandBack(self) ==
    [self EXCEPT !.llm_disabled = TRUE, !.person_disabled = FALSE]

\* InputApp.handle for a submission of the person input (lines 253-356):
\* a, r, l, d are the outcomes of the anonymize request, of its retry, of
\* the LLM and of the deanonymize request
handle_person(self, a, r, l, d) ==
    LET sub == [NoSubmission EXCEPT !.input = "person_input", !.anonymize = a]
        caught(s, h, e) == [self |-> s, res |-> [h EXCEPT !.raised = e,
                                                          !.notice = "error"]]
        after(s0, h) ==
            LET s1 == [s0 EXCEPT !.entries = @ + 1]
            IN  IF self.mode = "llm"
                THEN IF l = "error"
                     THEN caught(s1, [h EXCEPT !.llm = l], "Exception")
                     ELSE LET h2 == [h EXCEPT !.llm = l, !.deanonymize = d]
                          IN  IF d = "200"
                              THEN [self |-> [s1 EXCEPT !.entries = @ + 1],
                                    res |-> [h2 EXCEPT !.notice = "agent",
                                                       !.cleared = TRUE]]
                              ELSE IF RequestError(d) = "HTTPError"
                                      /\ SessionExpired(d)
                              THEN [self |-> [s1 EXCEPT !._session_id = None],
                                    res |-> [h2 EXCEPT !.notice = "expired"]]
                              ELSE caught(s1, h2, RequestError(d))
                ELSE [self |-> ManualHandOver(s1),
                      res |-> [h EXCEPT !.cleared = TRUE]]
    IN  IF a = "200" THEN after(Anonymized200(self), sub)
        ELSE IF RequestError(a) = "HTTPError" /\ SessionExpired(a)
        THEN LET s == [self EXCEPT !._session_id = None]
                 h == [sub EXCEPT !.retry = r]
             IN  IF r = "200" THEN after(Anonymized200(s), h)
                 ELSE caught(s, h, RequestError(r))
        ELSE caught(self, sub, RequestError(a))

\* InputApp.handle for a submission of the LLM input (lines 358-408)
handle_llm(self, d) ==
    LET sub == [NoSubmission EXCEPT !.input = "llm_input", !.deanonymize = d]
    IN  IF d = "200"
        THEN [self |-> HandBack([self EXCEPT !.entries = @ + 1]),
              res |-> [sub EXCEPT !.notice = "agent", !.cleared = TRUE]]
        ELSE IF RequestError(d) = "HTTPError" /\ SessionExpired(d)
        THEN [self |-> HandBack([self EXCEPT !._session_id = None]),
              res |-> [sub EXCEPT !.notice = "expired", !.cleared = TRUE]]
        ELSE [self |-> self,
              res |-> [sub EXCEPT !.raised = RequestError(d),
                                  !.notice = "error"]]

\* ------------------------------------------------------------- the system
\* a request goes to the first free worker (the workers are alike)
Idle(p) ==
    /\ call[p].pc = "idle" /\ ncalls < MaxCalls
    /\ \A q \in Procs : q < p => call[q].pc # "idle"

\* a worker takes an anonymize request and runs it up to the detector's
\* answer; an exception ends the request there
AnonymizeDetect(p) ==
    /\ Idle(p)
    /\ ncalls' = ncalls + 1
    /\ \E text \in AnonTexts, sid \in {None, ""} \cup KnownIds,
          f \in AnonymizeFailures :
         LET c == anonymize_detect(text, sid, f)
         IN  /\ NoSessionId(sid) => (f[1] # "get_state" /\ generated < MaxUuids)
             /\ generated' = IF NoSessionId(sid) THEN generated + 1 ELSE generated
             /\ IF c.pc = "raised"
                THEN /\ last' = AnonymizeRaised(c, f[2], c.trace)
                     /\ call' = call
                ELSE /\ last' = last
                     /\ call' = [call EXCEPT ![p] = c]
    /\ UNCHANGED <<store, SIGNING_METHOD, issued, returned, created, write_lost>>
    /\ UNCHANGED <<attestation_vars, client_vars>>

\* the worker writes the mapping, signs and answers
AnonymizeSetState(p) ==
    /\ call[p].pc = "anon_set"
    /\ \E result \in StoreOutcomes :
         LET c == call[p]
         IN  /\ store' = set_state(c.session_id, c.new_entity_mappings, result)
             /\ write_lost' = (write_lost \/ result = "false")
             /\ \E quote_data \in QuoteDataIf(result # "raise", c.anonymized_text) :
                    last' = anonymize_answer(c, result, quote_data)
             /\ IF last'.status # 200
                THEN UNCHANGED <<issued, returned, created>>
                ELSE /\ issued' = [issued EXCEPT ![c.session_id] =
                                      @ \cup Pairs(c.text, c.anonymized_text)]
                     /\ returned' = returned \cup {c.session_id}
                     /\ created' = IF NoSessionId(c.req_session_id)
                                   THEN [created EXCEPT ![c.session_id] = c.text]
                                   ELSE created
    /\ call' = [call EXCEPT ![p] = IdleCall]
    /\ UNCHANGED <<SIGNING_METHOD, generated, ncalls>>
    /\ UNCHANGED <<attestation_vars, client_vars>>

\* Deanonymize dropping the session it has restored from
Deanonymize_Consumes ==
    /\ \E p \in Procs : Idle(p)
    /\ ncalls' = ncalls + 1
    /\ \E text \in DeanonTexts, sid \in KnownIds, f \in DeanonymizeFailures :
         /\ \E quote_data \in QuoteDataIf(
                                f[1] = "none" /\ get_state(sid) # Null,
                                deanonymize_text(text, get_state(sid))) :
               last' = deanonymize(text, sid, f, quote_data)
         /\ store' = IF last'.status = 200 THEN [store EXCEPT ![sid] = Null]
                     ELSE store
    /\ UNCHANGED <<call, SIGNING_METHOD, generated, issued, returned,
                   created, write_lost>>
    /\ UNCHANGED <<attestation_vars, client_vars>>

\* a free worker serves a deanonymize request
Deanonymize ==
    /\ \E p \in Procs : Idle(p)
    /\ ncalls' = ncalls + 1
    /\ \E text \in DeanonTexts, sid \in KnownIds, f \in DeanonymizeFailures :
         \E quote_data \in QuoteDataIf(
                              f[1] = "none" /\ get_state(sid) # Null,
                              deanonymize_text(text, get_state(sid))) :
            last' = deanonymize(text, sid, f, quote_data)
    /\ UNCHANGED <<store, call, SIGNING_METHOD, generated, issued, returned,
                   created, write_lost>>
    /\ UNCHANGED <<attestation_vars, client_vars>>

Init ==
    /\ store = [s \in SessionIds |-> Null]
    /\ call = [p \in Procs |-> IdleCall]
    /\ SIGNING_METHOD \in Methods
    /\ generated = 0
    /\ ncalls = 0
    /\ last = NoResponse
    /\ issued = [s \in SessionIds |-> {}]
    /\ returned = {}
    /\ created = [s \in SessionIds |-> Null]
    /\ write_lost = FALSE
    /\ AttestationIdle
    /\ client = NoClient
    /\ cres = NoSubmission

Next ==
    \/ \E p \in Procs : AnonymizeDetect(p)
    \/ \E p \in Procs : AnonymizeSetState(p)
    \/ Deanonymize

Spec == Init /\ [][Next]_vars

\* ------------------------------------------------ one signer, method calls
\* the identity state after an init that returned r: a generated key whose
\* anchor requests succeeded is Ready, one whose anchor requests failed is
\* left half-built (Failed)
Transition(l, r) ==
    IF ~r.keygen THEN l
    ELSE IF r.raised = None THEN [state |-> "Ready", completed |-> TRUE]
    ELSE [l EXCEPT !.state = "Failed"]

\* whether the anchor answered (or its mock fallback applied) on every
\* request the call sent it
Reachable(r, qo, io) ==
    r.anchor = 0 \/ (qo # "error" /\ (r.anchor = 1 \/ io # "error"))

\* signer.init(force)
SignerInit ==
    /\ nops < MaxOps
    /\ nops' = nops + 1
    /\ \E force \in BOOLEAN, k \in Keys, qo \in AnchorOutcomes,
          io \in AnchorOutcomes :
         LET r == init(signer, force, k, qo, io)
             ok == r.raised = None
         IN  /\ signer' = r.self
             /\ lifecycle' = Transition(lifecycle, r)
             /\ sres' = [NoSignerResult EXCEPT
                    !.op = "init", !.was = lifecycle.state, !.force = force,
                    !.reachable = Reachable(r, qo, io),
                    !.raised = r.raised,
                    !.public_key = IF ok THEN r.ret.public_key ELSE Null,
                    !.signing_address = IF ok THEN r.ret.signing_address
                                        ELSE Null,
                    !.intel_quote = IF ok THEN r.ret.intel_quote ELSE Null,
                    !.signing_method = IF ok THEN r.ret.signing_method
                                       ELSE None,
                    !.keygen = r.keygen, !.anchor = r.anchor,
                    !.requests = r.requests]
    /\ UNCHANGED <<core_vars, client_vars, SIGNING_METHOD, process_vars, vres, initpc>>

\* signer.get_public_key()
SignerGetPublicKey ==
    /\ nops < MaxOps
    /\ nops' = nops + 1
    /\ \E k \in Keys, qo \in AnchorOutcomes, io \in AnchorOutcomes :
         LET r == get_public_key(signer, k, qo, io)
         IN  /\ signer' = r.self
             /\ lifecycle' = Transition(lifecycle, r)
             /\ sres' = [NoSignerResult EXCEPT
                    !.op = "get_public_key", !.was = lifecycle.state,
                    !.reachable = Reachable(r, qo, io),
                    !.raised = r.raised,
                    !.public_key = r.public_key,
                    !.signing_address = r.signing_address,
                    !.signing_method = r.signing_method,
                    !.keygen = r.keygen, !.anchor = r.anchor,
                    !.requests = r.requests]
    /\ UNCHANGED <<core_vars, client_vars, SIGNING_METHOD, process_vars, vres, initpc>>

\* signer.sign_content(content)
SignerSign ==
    /\ nops < MaxOps
    /\ nops' = nops + 1
    /\ \E content \in Contents, fault \in BOOLEAN :
         LET r == sign_content(signer, content, fault)
         IN  sres' = [NoSignerResult EXCEPT
                    !.op = "sign", !.was = lifecycle.state,
                    !.content = content, !.fault = fault,
                    !.raised = r.raised, !.signature = r.signature]
    /\ UNCHANGED <<signer, lifecycle, initpc>>
    /\ UNCHANGED <<core_vars, client_vars, SIGNING_METHOD, process_vars, vres>>

\* the signatures and public identifiers of the signers of method m
SignaturesOf(m) ==
    {sign_content(init(QuoteService(m), FALSE, k, "ok", "ok").self, c,
                  FALSE).signature : k \in Keys, c \in Contents}
IdentifiersOf(m) ==
    {init(QuoteService(m), FALSE, k, "ok", "ok").self.public_key : k \in Keys}

\* signer.verify_signature(content, signature, public_key)
SignerVerify ==
    /\ nops < MaxOps
    /\ nops' = nops + 1
    /\ \E content \in Contents,
          signature \in SignaturesOf(signer.signing_method) \cup {<<"zz">>},
          public_key \in IdentifiersOf(signer.signing_method) :
         sres' = [NoSignerResult EXCEPT
                    !.op = "verify", !.was = lifecycle.state,
                    !.content = content, !.signature = signature,
                    !.public_key = public_key,
                    !.signing_method = signer.signing_method,
                    !.is_valid = verify_signature(signer, content, signature,
                                                  public_key)]
    /\ UNCHANGED <<signer, lifecycle, initpc>>
    /\ UNCHANGED <<core_vars, client_vars, SIGNING_METHOD, process_vars, vres>>

SignerNext == SignerInit \/ SignerGetPublicKey \/ SignerSign \/ SignerVerify

SignerSpec == Init /\ [][SignerNext]_vars

\* ----------------------------------- one signer, two threads calling it
\* A thread runs init(force) on the signer, assignment by assignment,
\* while another thread signs and reads the public material.
\* init up to the first assignment of the key generation
ThreadInitBegin ==
    /\ initpc = "idle"
    /\ nops < MaxOps
    /\ nops' = nops + 1
    /\ \E force \in BOOLEAN, k \in Keys :
         IF Cached(signer, force) \/ Unsupported(signer.signing_method)
         THEN UNCHANGED <<signer, initpc>>
         ELSE /\ signer' = _init_assign(signer, k, 1)
              /\ initpc' = "assign2"
    /\ UNCHANGED <<sres, lifecycle>>
    /\ UNCHANGED <<core_vars, client_vars, SIGNING_METHOD, process_vars, vres>>

\* the second and the third assignment
ThreadInitAssign ==
    /\ initpc \in {"assign2", "assign3"}
    /\ signer' = _init_assign(signer, None, IF initpc = "assign2" THEN 2 ELSE 3)
    /\ initpc' = IF initpc = "assign2" THEN "assign3" ELSE "anchor"
    /\ UNCHANGED <<sres, lifecycle, nops>>
    /\ UNCHANGED <<core_vars, client_vars, SIGNING_METHOD, process_vars, vres>>

\* the anchor requests of init (lines 66-71) and its return
ThreadInitAnchor ==
    /\ initpc = "anchor"
    /\ \E qo \in AnchorOutcomes, io \in AnchorOutcomes :
         LET q  == _get_quote(signer.public_key, qo)
             s2 == [signer EXCEPT !.intel_quote = q.quote,
                                  !.event_log = q.event_log]
             i  == _get_info(s2, io)
         IN  signer' = IF q.raised # None THEN signer
                       ELSE IF i.raised # None THEN s2
                       ELSE [s2 EXCEPT !.info = i.info]
    /\ initpc' = "idle"
    /\ UNCHANGED <<sres, lifecycle, nops>>
    /\ UNCHANGED <<core_vars, client_vars, SIGNING_METHOD, process_vars, vres>>

\* another thread signs a content and reads the public material, at a
\* point where the signer has a public key to give
ThreadObserve ==
    /\ signer.public_key # Null
    /\ \E content \in Contents :
         LET pm == get_public_key(signer, None, "ok", "ok")
             sg == sign_content(signer, content, FALSE)
         IN  sres' = [NoSignerResult EXCEPT
                    !.op = "observe", !.was = initpc, !.content = content,
                    !.raised = sg.raised, !.signature = sg.signature,
                    !.public_key = pm.public_key,
                    !.signing_address = pm.signing_address,
                    !.signing_method = pm.signing_method]
    /\ UNCHANGED <<signer, lifecycle, initpc, nops>>
    /\ UNCHANGED <<core_vars, client_vars, SIGNING_METHOD, process_vars, vres>>

ThreadNext ==
    ThreadInitBegin \/ ThreadInitAssign \/ ThreadInitAnchor \/ ThreadObserve

ThreadSpec == Init /\ [][ThreadNext]_vars

\* ------------------------------------------- one process, its endpoints
\* what a response or a public-key answer gives out of the identity
Publish(signing_method, public_key) ==
    IF public_key = Null THEN published
    ELSE published \cup {<<signing_method, public_key>>}

\* get_public_key endpoint (main.py): a signer is built for the request
\* and asked for its public key
PublicKeyEndpoint ==
    /\ nops < MaxOps
    /\ nops' = nops + 1
    /\ \E signing_method \in {None} \cup Methods, k \in Keys,
          qo \in AnchorOutcomes, io \in AnchorOutcomes :
         LET service == QuoteService(signing_method)
             public_key_data == get_public_key(service, k, qo, io)
         IN  published' = Publish(public_key_data.signing_method,
                                  public_key_data.public_key)
    /\ UNCHANGED <<attest, overlapped>>
    /\ UNCHANGED <<core_vars, client_vars, SIGNING_METHOD, signer_vars, vres>>

\* an anonymize or deanonymize call reaches _generate_quote_and_signature:
\* a signer is built for the call and init generates its key; with an
\* unsupported method init raises and the call goes on without attestation
AttestBegin(p) ==
    /\ nops < MaxOps
    /\ nops' = nops + 1
    /\ attest[p].pc = "idle"
    /\ \E content \in Contents, k \in Keys :
         attest' = IF Unsupported(QuoteService(None).signing_method)
                   THEN attest
                   ELSE [attest EXCEPT ![p] =
                            [IdleAttest EXCEPT !.pc = "anchor", !.k = k,
                                               !.content = content]]
    /\ overlapped' = (overlapped
                       \/ (/\ attest'[p].pc = "anchor"
                           /\ \E q \in Procs \ {p} : attest[q].pc = "anchor"))
    /\ UNCHANGED published
    /\ UNCHANGED <<core_vars, client_vars, SIGNING_METHOD, signer_vars, vres>>

\* the anchor requests of that init return, the content is signed and the
\* response carries the public key
AttestFinish(p) ==
    /\ attest[p].pc = "anchor"
    /\ \E qo \in AnchorOutcomes, io \in AnchorOutcomes, fault \in BOOLEAN :
         LET quote_data == _generate_quote_and_signature(
                               attest[p].content, attest[p].k, qo, io, fault)
         IN  /\ published' = Publish(quote_data.signing_method,
                                     quote_data.public_key)
             /\ attest' = [attest EXCEPT ![p] =
                    [IdleAttest EXCEPT
                        !.quote = quote_data.quote,
                        !.quote_from = IF quote_data.quote = Null THEN None
                                       ELSE qo,
                        !.text = attest[p].content,
                        !.signature = quote_data.signature,
                        !.public_key = quote_data.public_key,
                        !.signing_method = quote_data.signing_method]]
    /\ UNCHANGED <<nops, overlapped>>
    /\ UNCHANGED <<core_vars, client_vars, SIGNING_METHOD, signer_vars, vres>>

ProcessNext ==
    \/ PublicKeyEndpoint
    \/ \E p \in Procs : AttestBegin(p)
    \/ \E p \in Procs : AttestFinish(p)

ProcessSpec == Init /\ [][ProcessNext]_vars

\* ------------------------------------------------- verification requests
\* request values that are no signature / no key: the empty text, text
\* outside the encoding's alphabet, well-encoded bytes of the wrong length
MalformedSignatures == {<< >>, <<"zz">>, <<"hex", "short">>, <<"0x", "zz">>}
MalformedKeys == {<< >>, <<"zz">>, <<"b64", "short">>}
VerifyTags == Methods \cup {""}

\* the signer of method m holding key k, after init
ReadySigner(m, k) == init(QuoteService(m), FALSE, k, "ok", "ok").self
SignedBy(m, k, content) == sign_content(ReadySigner(m, k), content, FALSE).signature
ValidSignatures ==
    {SignedBy(m, k, c) : m \in {ECDSA, ED25519}, k \in Keys, c \in Contents}
ValidKeys == {ReadySigner(m, k).public_key : m \in {ECDSA, ED25519}, k \in Keys}

Replace(s, i, t) == [s EXCEPT ![i] = t]

\* the requests one bit away from the request v, which a signer of method
\* v.signing_method signed: by the field mutated and what the bit changes
Mutations(v) ==
    LET ecdsa == v.signing_method = ECDSA
        m(kind, c, sg, pk) == [kind |-> kind, content |-> c, signature |-> sg,
                               public_key |-> pk]
        sg == v.signature
        pk == v.public_key
    IN  {m("content", c, sg, pk) : c \in Contents \ {v.content}}
        \cup {m("signature_bytes", v.content,
                Replace(sg, IF ecdsa THEN 4 ELSE 3, "garbled"), pk)}
        \cup {m("signature_hex_case", v.content,
                Replace(sg, IF ecdsa THEN 2 ELSE 1, "HEX"), pk)}
        \cup {m("key_bytes", v.content, sg, Replace(pk, 3, "garbled"))}
        \cup (IF ecdsa
              THEN {m("signature_prefix_case", v.content, Replace(sg, 1, "0X"), pk)}
                   \cup {m("address_case", v.content, sg, Replace(pk, 2, t)) :
                            t \in {"addr", "ADDR"}}
                   \cup {m("address_case", v.content, sg, Replace(pk, 1, "0X"))}
              ELSE {m("key_base64_slack", v.content, sg, Replace(pk, 1, "b64~"))})

Verified(origin, kind, content, signature, public_key, signing_method) ==
    LET r == verify_signature_endpoint(content, signature, public_key,
                                       signing_method)
    IN  [origin |-> origin, kind |-> kind, content |-> content,
         signature |-> signature, public_key |-> public_key,
         signing_method |-> signing_method, raised |-> r.raised,
         is_valid |-> r.is_valid]

\* a client has a text signed and asks for its verification
VerifySigned ==
    /\ \E m \in {ECDSA, ED25519}, k \in Keys, content \in Contents :
         vres' = Verified("signed", None, content, SignedBy(m, k, content),
                          ReadySigner(m, k).public_key, m)
    /\ UNCHANGED <<core_vars, client_vars, SIGNING_METHOD, signer_vars, nops, process_vars>>

\* the request just verified comes again with one bit changed
VerifyMutated ==
    /\ vres.origin = "signed" /\ vres.is_valid
    /\ \E mu \in Mutations(vres) :
         vres' = Verified("mutated", mu.kind, mu.content, mu.signature,
                          mu.public_key, vres.signing_method)
    /\ UNCHANGED <<core_vars, client_vars, SIGNING_METHOD, signer_vars, nops, process_vars>>

\* any request: values that are well-formed or not, any method tag
VerifyAny ==
    /\ \E content \in Contents,
          signature \in MalformedSignatures \cup ValidSignatures,
          public_key \in MalformedKeys \cup ValidKeys,
          signing_method \in VerifyTags :
         vres' = Verified("any", None, content, signature, public_key,
                          signing_method)
    /\ UNCHANGED <<core_vars, client_vars, SIGNING_METHOD, signer_vars, nops, process_vars>>

\* the identifiers a client can send for the address of key k: the address
\* in any letter case, and texts that differ from it otherwise (without
\* the prefix, with a trailing blank, cut short)
AddressForms(k) ==
    {<<p, t, k>> : p \in {"0x", "0X"}, t \in {"Addr", "ADDR", "addr"}}
    \cup {<<"Addr", k>>, <<"0x", "Addr", k, " ">>, <<"0x", "Addr">>}

\* an ECDSA signature is verified against some form of some address
VerifyIdentifier ==
    /\ \E k \in Keys, content \in Contents, k2 \in Keys :
         \E public_key \in AddressForms(k2) :
            vres' = Verified("identifier", None, content,
                             SignedBy(ECDSA, k, content), public_key, ECDSA)
    /\ UNCHANGED <<core_vars, client_vars, SIGNING_METHOD, signer_vars, nops, process_vars>>

VerifyNext == VerifySigned \/ VerifyMutated \/ VerifyAny \/ VerifyIdentifier

VerifySpec == Init /\ [][VerifyNext]_vars


\* ------------------------------------------------- the client at work
\* main: the application is started in one of its modes
ClientStart ==
    /\ client = NoClient
    /\ \E mode \in {"manual", "llm"} : client' = InputApp(mode)
    /\ UNCHANGED <<cres, nops>>
    /\ UNCHANGED <<core_vars, SIGNING_METHOD, signer_vars, process_vars, vres>>

\* the person submits a text
SubmitPerson ==
    /\ client.mode # None /\ ~client.person_disabled
    /\ nops < MaxOps
    /\ client._session_id = None => client.sessions < MaxUuids
    /\ nops' = nops + 1
    /\ \E a \in HttpOutcomes, r \in HttpOutcomes, l \in LlmOutcomes,
          d \in HttpOutcomes :
         LET h == handle_person(client, a, r, l, d)
         IN  client' = h.self /\ cres' = h.res
    /\ UNCHANGED <<core_vars, SIGNING_METHOD, signer_vars, process_vars, vres>>

\* a text is submitted on behalf of the LLM
SubmitLlm ==
    /\ client.mode # None /\ ~client.llm_disabled
    /\ nops < MaxOps
    /\ nops' = nops + 1
    /\ \E d \in HttpOutcomes :
         LET h == handle_llm(client, d)
         IN  client' = h.self /\ cres' = h.res
    /\ UNCHANGED <<core_vars, SIGNING_METHOD, signer_vars, process_vars, vres>>

ClientNext == ClientStart \/ SubmitPerson \/ SubmitLlm

ClientSpec == Init /\ [][ClientNext]_vars

\* ================================================================ claims
\* the step in which a deanonymize request is served
DeanonymizeStep ==
    ncalls' = ncalls + 1 /\ call' = call /\ last'.op = "deanonymize"
\* the step in which an anonymize call writes the store and answers
AnonymizeAnswerStep == ncalls' = ncalls /\ call' # call

Anonymized(r) == r.op = "anonymize" /\ r.status = 200
Deanonymized(r) == r.op = "deanonymize" /\ r.status = 200
AllNull(r) ==
    r.quote = Null /\ r.signature = Null /\ r.public_key = Null
    /\ r.signing_method = None
NoneNull(r) ==
    r.quote # Null /\ r.signature # Null /\ r.public_key # Null
    /\ r.signing_method # None
Has(trace, e) == \E i \in DOMAIN trace : trace[i] = e

\* C1: a deanonymize request for a session id the store has no mapping for
\* is answered with the session-not-found error (404, no text), without
\* calling the detector's restore or the signer, and the store is unchanged.
C1_DeanonymizeAbsentFails ==
    [][(DeanonymizeStep /\ store[last'.req_session_id] = Null
          /\ last'.lookup # "raised")
       => (/\ last'.status = 404
           /\ last'.raised = "ValueError"
           /\ last'.text = Null
           /\ ~Has(last'.trace, "deanonymize_text")
           /\ ~Has(last'.trace, "sign")
           /\ store' = store)]_vars

C1_Witness ==
    /\ last.op = "deanonymize" /\ last.status = 404
    /\ last.lookup = "absent"
    /\ store[last.req_session_id] = Null

\* C2: an anonymize request with a session id the store has no mapping for
\* does not fail for that: the detector gets the absent mapping, the
\* detector's mapping is stored under the supplied id, and the answer
\* carries the supplied id.
C2_UnknownSessionProceeds ==
    [][(AnonymizeAnswerStep /\ last'.lookup = "absent" /\ last'.raised = None)
       => (/\ last'.status = 200
           /\ last'.read = Null
           /\ last'.session_id = last'.req_session_id
           /\ store'[last'.req_session_id]
                = anonymize_text(last'.req_text, Null).mapping)]_vars

\* C3: an anonymize request without a session id gets an id that no client
\* knows and the store does not hold, does not read the store, hands the
\* detector the absent mapping, and when it succeeds the store holds the
\* detector's mapping under the id the answer returns.
C3_FreshSessionCreated ==
    [][(AnonymizeAnswerStep /\ NoSessionId(last'.req_session_id)
          /\ last'.status = 200)
       => (/\ last'.session_id \notin KnownIds
           /\ store[last'.session_id] = Null
           /\ ~Has(last'.trace, "get_state")
           /\ last'.read = Null
           /\ store'[last'.session_id]
                = anonymize_text(last'.req_text, Null).mapping)]_vars

\* C4 as stated: within one session id, every original value has the same
\* placeholder in all anonymize answers, whatever the interleaving of the
\* calls (store writes that were silently dropped set aside).
C4_SamePlaceholderAnyInterleaving ==
    ~write_lost =>
        \A sid \in SessionIds : \A a \in issued[sid], b \in issued[sid] :
            a[1] = b[1] => a[2] = b[2]

\* C4 as amended: when an anonymize call reads from the store a mapping
\* that holds the placeholder an earlier answer of the session gave for a
\* value, its own answer gives that value the same placeholder.
C4_SamePlaceholderWhenRead ==
    Anonymized(last) =>
        \A a \in Pairs(last.req_text, last.text) :
            \A b \in issued[last.session_id] :
                (/\ a[1] = b[1]
                 /\ HasValue(last.read, a[1])
                 /\ PH[IndexOf(last.read, a[1])] = b[2])
                => a[2] = b[2]

C4_Witness ==
    /\ Anonymized(last)
    /\ last.req_text = <<"Bob", "Alice">>
    /\ last.read = <<"Alice">>
    /\ last.text = <<PH[2], PH[1]>>
    /\ <<"Alice", PH[1]>> \in issued[last.session_id]

\* C5: the text an anonymize request without session id returned, sent to
\* deanonymize with the session id it returned, is restored to the
\* original text (the store read and the detector not failing).
C5_RoundTrip ==
    (/\ last.op = "deanonymize"
     /\ created[last.req_session_id] # Null
     /\ last.req_text = anonymize_text(created[last.req_session_id], Null).text
     /\ last.lookup # "raised"
     /\ ~(last.raised # None /\ Has(last.trace, "deanonymize_text")))
    => (last.status = 200 /\ last.text = created[last.req_session_id])

\* C6: when the attestation layer fails (unsupported method, anchor error,
\* signing error) the request still succeeds: it returns the text, and the
\* four attestation fields are null.
C6_AttestationFailureSwallowed ==
    last.attest_failure # None
    => (last.status = 200 /\ last.text # Null /\ AllNull(last))

C6_Witness ==
    /\ last.attest_failure = "Exception" /\ SIGNING_METHOD = ED25519
    /\ last.status = 200 /\ last.text # Null /\ AllNull(last)

\* C7: in every successful answer the four attestation fields are all null
\* or all non-null.
C7_AttestationFieldsTogether ==
    last.status = 200 => (AllNull(last) \/ NoneNull(last))

C7_Witness == Anonymized(last) /\ NoneNull(last)

\* C8: when the store write of an anonymize call does not succeed (it
\* raises or returns a non-success result), the call fails: no answer text,
\* no signature, the signer is not called.
C8_WriteFailureFatal ==
    (last.op = "anonymize" /\ last.set_result \in {"raise", "false"})
    => (/\ last.status = 500
        /\ last.text = Null /\ last.signature = Null
        /\ ~Has(last.trace, "sign"))

\* C9: serving a deanonymize request, however it ends, leaves every
\* session's mapping in the store as it was.
C9_DeanonymizeKeepsStore ==
    [][DeanonymizeStep => store' = store]_vars

C9_Witness ==
    /\ Deanonymized(last)
    /\ store[last.req_session_id] # Null
    /\ last.text # last.req_text

\* C10: the signature of a successful answer verifies, in a signer built
\* for the answer's signing method, for the answer's text and public key.
C10_SignatureVerifies ==
    (last.status = 200 /\ last.signature # Null)
    => verify_signature(QuoteService(last.signing_method), last.text,
                        last.signature, last.public_key)

C10_Witness ==
    /\ Deanonymized(last) /\ last.signature # Null
    /\ last.signing_method = ECDSA
    /\ verify_signature(QuoteService(last.signing_method), last.text,
                        last.signature, last.public_key)

\* the public material get_public_key gives for the signer as it is
PublicMaterial ==
    {get_public_key(signer, k, qo, io) :
        k \in Keys, qo \in AnchorOutcomes, io \in AnchorOutcomes}

\* C11: for both algorithms and every content, a signature that a Ready
\* signer returns for the content verifies for the content, the public key
\* get_public_key gives, and the signer's algorithm; signing succeeds
\* unless the signing library itself fails.
C11_SignVerifiesWhileReady ==
    (sres.op = "sign" /\ sres.was = "Ready" /\ ~sres.fault)
    => (/\ sres.raised = None
        /\ \A pm \in PublicMaterial :
              /\ pm.raised = None
              /\ verify_signature(QuoteService(pm.signing_method),
                                  sres.content, sres.signature,
                                  pm.public_key))

C11_Witness ==
    /\ sres.op = "sign" /\ sres.was = "Ready" /\ sres.raised = None
    /\ signer.signing_method = ED25519
    /\ verify_signature(signer, sres.content, sres.signature,
                        signer.public_key)

\* the bit changes that leave the decoded value as it was: the letter
\* case of hex digits and of an address, the unused bits of base64
EncodingOnly == {"signature_hex_case", "address_case", "key_base64_slack"}

SignerStep(op) == nops' = nops + 1 /\ sres'.op = op

\* C14: init(force = FALSE) on a signer of which an initialization has
\* completed returns the public key, signing address and quote the signer
\* holds, leaves the signer as it is, generates no key and sends nothing
\* to the trust anchor; the public key of such a signer changes only in a
\* call of init(force = TRUE).
C14_InitIdempotentUnlessForced ==
    [][/\ (SignerStep("init") /\ ~sres'.force /\ lifecycle.completed)
          => (/\ sres'.raised = None
              /\ sres'.public_key = signer.public_key
              /\ sres'.signing_address = signer.signing_address
              /\ sres'.intel_quote = signer.intel_quote
              /\ signer' = signer
              /\ ~sres'.keygen /\ sres'.anchor = 0)
       /\ (lifecycle.completed /\ signer'.public_key # signer.public_key)
          => (SignerStep("init") /\ sres'.force)]_vars

C14_Witness ==
    /\ sres.op = "init" /\ ~sres.force /\ sres.was = "Ready"
    /\ lifecycle.completed /\ ~sres.keygen /\ sres.anchor = 0
    /\ sres.intel_quote # Null /\ sres.public_key = signer.public_key

\* one public key per signing method among those given out
OneIdentityPublished ==
    \A a \in published, b \in published : a[1] = b[1] => a[2] = b[2]

\* C15: within one process all responses and public-key answers for one
\* signing method carry the same public key (no endpoint forces a
\* reinitialization).
C15_IdentityKeptPerProcess == OneIdentityPublished

\* C16: attestation requests in flight at the same time work on one
\* generated key, and once requests have overlapped no two public keys of
\* one signing method have been given out.
C16_SingleFlight ==
    /\ \A p \in Procs, q \in Procs :
          (attest[p].pc = "anchor" /\ attest[q].pc = "anchor")
          => attest[p].k = attest[q].k
    /\ overlapped => OneIdentityPublished

Supported(signing_method) == signing_method \in {ECDSA, ED25519}

\* C17: sign_content on a signer that has not been initialized, with a
\* supported method, initializes the identity itself and returns a
\* signature.
C17_SignAutoInitializes ==
    (/\ sres.op = "sign" /\ sres.was = "Uninitialized"
     /\ Supported(signer.signing_method) /\ ~sres.fault)
    => (sres.raised = None /\ sres.signature # Null)

C19_UnsupportedInitFails ==
    [][(SignerStep("init") /\ ~Supported(signer.signing_method))
       => (/\ sres'.raised = "ValueError"
           /\ signer' = signer
           /\ signer'.raw_acct = None /\ signer'.ed25519_key = None
           /\ signer'.public_key = Null /\ signer'.signing_address = Null
           /\ ~sres'.keygen /\ sres'.anchor = 0)]_vars

C19_Witness ==
    /\ sres.op = "init" /\ sres.raised = "ValueError"
    /\ signer = QuoteService("rsa")

\* the quotes the anchor (or its mock fallback) gives for a public key
QuotesFor(public_key) ==
    {_get_quote(public_key, "ok").quote, _get_quote(public_key, "absent").quote}

\* C20: whenever init(force = FALSE) returns the data it holds without
\* going to the anchor, the quote returned is there and is the quote the
\* anchor gave for the public key returned with it.
C20_CachedQuoteOfCurrentIdentity ==
    (/\ sres.op = "init" /\ ~sres.force /\ sres.raised = None
     /\ sres.anchor = 0)
    => (/\ sres.intel_quote # Null
        /\ sres.intel_quote \in QuotesFor(sres.public_key))

\* C21: whatever another thread observes of a signer, also while an init
\* is in progress, belongs to one key pair: the signature it gets verifies
\* for the public key it reads, and the signing address it reads is the
\* address of that public key.
C21_OneIdentityObserved ==
    (sres.op = "observe" /\ sres.raised = None)
    => (/\ verify_signature(QuoteService(sres.signing_method), sres.content,
                            sres.signature, sres.public_key)
        /\ sres.signing_address # Null
           => IF sres.signing_method = ECDSA
              THEN sres.signing_address = sres.public_key
              ELSE FromHex(sres.signing_address) = B64Decode(sres.public_key))

\* the step in which worker p writes the store and answers
AnswerStepOf(p) == call[p].pc = "anon_set" /\ call'[p].pc = "idle"

\* C22: last writer wins: whenever the set of an anonymize call that
\* completes has returned, the mapping the store holds for the session is
\* exactly the updatedMapping of that call, whatever calls on the same
\* session were in flight; so after two concurrent calls the store holds
\* the mapping of the call whose set completed last.
C22_LastWriterWins ==
    [][\A p \in Procs :
          (AnswerStepOf(p) /\ last'.status = 200)
          => store' = [store EXCEPT ![call[p].session_id] =
                                        call[p].new_entity_mappings]]_vars

\* C25: after a successful anonymize on a session the stored mapping is
\* exactly the mapping the detector returned to that call, nothing of the
\* mapping stored before being kept beside it.
C25_SetOverwrites ==
    Anonymized(last)
    => store[last.session_id]
         = anonymize_text(last.req_text, DetectorInput(last.read)).mapping

\* C29: an anonymize call invokes its collaborators in the order resolve,
\* detect, set, sign; when the signer is invoked the updated mapping is
\* already stored, and when the attestation fails it stays stored while
\* the answer carries the text and null attestation fields.
C29_PersistBeforeSign ==
    [][\A p \in Procs :
          (AnswerStepOf(p) /\ Has(last'.trace, "sign"))
          => (/\ last'.trace \in {<<"uuid4", "anonymize_text", "set_state", "sign">>,
                                  <<"get_state", "anonymize_text", "set_state", "sign">>}
              /\ store'[call[p].session_id] = call[p].new_entity_mappings
              /\ last'.attest_failure # None
                 => (/\ last'.status = 200
                     /\ last'.text = call[p].anonymized_text
                     /\ AllNull(last')))]_vars

\* C30: calls made one after the other: an anonymize call that names the
\* session of the successful anonymize answered just before it, no other
\* call being in flight, hands the detector exactly the mapping that
\* anonymize persisted.
C30_ReadsWhatWasPersisted ==
    [][\A p \in Procs :
          (/\ \A q \in Procs : call[q].pc = "idle"
           /\ Anonymized(last)
           /\ call'[p].pc = "anon_set"
           /\ call'[p].req_session_id = last.session_id)
          => DetectorInput(call'[p].entity_mappings)
               = anonymize_text(last.req_text, DetectorInput(last.read)).mapping]_vars

\* C23: the quote of a response starts with MOCK_QUOTE_ exactly when the
\* anchor was unavailable and the mock fallback produced it; a quote the
\* anchor gave never has that tag.
C23_MockQuoteTagged ==
    \A p \in Procs :
        attest[p].quote # Null
        => (/\ attest[p].quote_from \in {"ok", "absent"}
            /\ attest[p].quote_from = "absent"
               <=> StartsWith(attest[p].quote, "MOCK_QUOTE_"))

C23_Witness ==
    \E p \in Procs :
        /\ attest[p].quote_from = "absent"
        /\ StartsWith(attest[p].quote, "MOCK_QUOTE_")

\* C24: no step of the core destroys a session: a session id the store
\* holds a mapping for still has one after any anonymize or deanonymize
\* call, however the call ends.
C24_SessionNeverDestroyed ==
    [][\A sid \in SessionIds :
          store[sid] # Null => store'[sid] # Null]_vars

C24_Witness ==
    /\ last.op = "anonymize" /\ last.lookup = "found"
    /\ last.set_result = "false"
    /\ store[last.req_session_id] = last.read

\* C26: a deanonymize request is answered 404 exactly when the store has
\* no mapping for the session; when the store read or the detector's
\* restore fails, with whatever kind of error, the answer is 500.
C26_NotFoundOnlyWhenAbsent ==
    last.op = "deanonymize"
    => (/\ last.status = 404 <=> last.lookup = "absent"
        /\ (/\ last.raised # None
            /\ \/ last.lookup = "raised"
               \/ last.trace = <<"get_state", "deanonymize_text">>)
           => last.status = 500)

\* the step in which an anonymize call ends at the detector's failure
DetectFailedStep ==
    /\ ncalls' = ncalls + 1 /\ call' = call
    /\ last'.op = "anonymize"
    /\ last'.trace \in {<<"uuid4", "anonymize_text">>,
                        <<"get_state", "anonymize_text">>}

\* C27: when the detector fails in an anonymize call the caller gets the
\* error (500, no text, no session id), the store is as it was, with no
\* entry for an id generated for the call, and neither the store write nor
\* the signer was invoked.
C27_DetectFailureLeavesStore ==
    [][DetectFailedStep
       => (/\ last'.status = 500
           /\ last'.raised \in RaiseKinds
           /\ last'.text = Null /\ last'.session_id = None
           /\ AllNull(last')
           /\ store' = store
           /\ NoSessionId(last'.req_session_id)
              => (generated' = generated + 1 /\ store'[UuidPool[generated']] = Null)
           /\ last'.set_result = None
           /\ ~Has(last'.trace, "set_state")
           /\ ~Has(last'.trace, "sign"))]_vars

C27_Witness ==
    /\ last.op = "anonymize" /\ last.status = 500
    /\ last.trace = <<"get_state", "anonymize_text">>
    /\ last.lookup = "found"
    /\ store[last.req_session_id] = last.read

\* C28 as stated: within one session id no placeholder stands for two
\* different original values over all anonymize answers (store writes
\* that were silently dropped set aside).
C28_PlaceholderNeverShared ==
    ~write_lost =>
        \A sid \in SessionIds : \A a \in issued[sid], b \in issued[sid] :
            a[2] = b[2] => a[1] = b[1]

\* C28 as amended: when an anonymize call reads from the store a mapping
\* in which a placeholder stands for the value an earlier answer of the
\* session gave it to, its own answer gives that placeholder to no other
\* value.
C28_PlaceholderKeptWhenRead ==
    Anonymized(last) =>
        \A a \in Pairs(last.req_text, last.text) :
            \A b \in issued[last.session_id] :
                (/\ a[2] = b[2]
                 /\ HasValue(last.read, b[1])
                 /\ PH[IndexOf(last.read, b[1])] = b[2])
                => a[1] = b[1]

C28_Witness ==
    /\ Anonymized(last)
    /\ last.read = <<"Bob", "Alice">>
    /\ last.req_text = <<"Alice">>
    /\ last.text = <<PH[2]>>
    /\ <<"Bob", PH[1]>> \in issued[last.session_id]

\* the letter-case variants of an address
CaseVariants(a) ==
    {<<p, t, a[3]>> : p \in {"0x", "0X"}, t \in {"Addr", "ADDR", "addr"}}

\* C31: for a content and its ECDSA signature by a key, verification
\* answers true for every letter-case variant of the key's address and
\* false for every identifier that differs from the address in more than
\* letter case.
C31_AddressCaseInsensitive ==
    vres.origin = "identifier"
    => \A k \in Keys :
          vres.signature = SignedBy(ECDSA, k, vres.content)
          => (vres.is_valid <=> vres.public_key \in CaseVariants(Address(k)))

C31_Witness ==
    /\ vres.origin = "identifier" /\ vres.is_valid
    /\ vres.public_key = <<"0X", "ADDR", "k2">>
    /\ vres.signature = SignedBy(ECDSA, "k2", vres.content)

\* C32: the trust anchor is never asked twice: a call that initializes
\* the signer sends one quote request and then, only when that request
\* returned, one info request; a request that failed is not repeated, and
\* a call that does not initialize sends none.
C32_AnchorNotRetried ==
    sres.op \in {"init", "get_public_key"}
    => (/\ sres.requests \in {<< >>, <<"quote">>, <<"quote", "info">>}
        /\ sres.keygen <=> sres.requests # << >>
        /\ sres.requests = <<"quote">> => sres.raised # None
        /\ (sres.keygen /\ sres.raised = None)
           => sres.requests = <<"quote", "info">>)

C32_Witness ==
    /\ sres.op = "init" /\ sres.keygen
    /\ sres.raised # None /\ sres.requests = <<"quote">>

\* C33: whatever attestation requests overlap, the attestation fields of
\* a response belong together: its quote was requested (from the anchor
\* or its mock fallback) for the public key of the same response, and its
\* signature verifies for its text and that public key.
C33_ResponseFieldsOfOneIdentity ==
    \A p \in Procs :
        attest[p].quote # Null
        => (/\ attest[p].quote
                 \in {_get_quote(attest[p].public_key, qo).quote :
                         qo \in {"ok", "absent"}}
            /\ verify_signature(QuoteService(attest[p].signing_method),
                                attest[p].text, attest[p].signature,
                                attest[p].public_key))

C33_Witness ==
    /\ overlapped
    /\ attest[1].quote # Null /\ attest[2].quote # Null
    /\ attest[1].public_key # attest[2].public_key
    /\ attest[1].text # attest[2].text

\* C34: verification depends on its arguments alone: a signer in any
\* identity state (new, initialized with any key, reinitialized, half
\* built) answers as a new signer of the same method does for the same
\* content, signature and public identifier, and the call leaves the
\* signer's state as it was.
C34_VerifyIndependentOfIdentity ==
    [][SignerStep("verify")
       => (/\ sres'.is_valid
                = verify_signature(QuoteService(signer.signing_method),
                                   sres'.content, sres'.signature,
                                   sres'.public_key)
           /\ signer' = signer
           /\ lifecycle' = lifecycle)]_vars

C34_Witness ==
    /\ sres.op = "verify" /\ sres.is_valid
    /\ signer.public_key # Null
    /\ signer.public_key # sres.public_key

\* C35: sessions do not interfere: the mapping of a session id changes
\* only in the step in which an anonymize call on that very id writes the
\* store, whatever calls on other ids are in flight.
C35_OtherSessionsUntouched ==
    [][\A sid \in SessionIds :
          store'[sid] # store[sid]
          => \E p \in Procs : AnswerStepOf(p) /\ call[p].session_id = sid]_vars

C35_Witness ==
    /\ Anonymized(last) /\ last.set_result = "ok"
    /\ store[last.session_id] # Null
    /\ \E sid \in SessionIds \ {last.session_id} :
          /\ store[sid] # Null
          /\ store[sid] # store[last.session_id]

\* the placeholder of the pair b is restored to its value under mapping m
RestoresTo(b, m) == m # Null /\ deanonymize_text(<<b[2]>>, m) = <<b[1]>>

\* C36 as stated: every placeholder a completed anonymize on a session
\* returned for a value is restored to that value under the mapping the
\* store holds for the session, whatever anonymize calls on the session
\* followed or overlapped (store writes that were silently dropped set
\* aside).
C36_NoPlaceholderLost ==
    ~write_lost =>
        \A sid \in SessionIds : \A b \in issued[sid] :
            RestoresTo(b, store[sid])

\* C36 as amended: an anonymize call keeps what it read: every returned
\* placeholder that is restored to its value under the mapping the call
\* read from the store is restored to it under the mapping the call hands
\* to the store, and under the stored mapping once that write is made.
C36_ReadMappingKept ==
    Anonymized(last) =>
        \A b \in issued[last.session_id] :
            RestoresTo(b, last.read)
            => (/\ RestoresTo(b, anonymize_text(last.req_text,
                                   DetectorInput(last.read)).mapping)
                /\ last.set_result = "ok"
                   => RestoresTo(b, store[last.session_id]))

C36_Witness ==
    /\ Anonymized(last) /\ last.set_result = "ok"
    /\ last.read = <<"Alice">>
    /\ last.req_text = <<"Bob", "Alice">>
    /\ store[last.session_id] = <<"Alice", "Bob">>
    /\ <<"Alice", PH[1]>> \in issued[last.session_id]
    /\ <<"Bob", PH[2]>> \in issued[last.session_id]

\* C37: once an anonymize call on a session id has succeeded, a later
\* deanonymize on that id whose store read does not fail gets past the
\* session lookup: it finds a mapping, also an empty one, and goes on to
\* the detector.
C37_SessionFoundAfterAnonymize ==
    (/\ last.op = "deanonymize"
     /\ last.req_session_id \in returned
     /\ last.lookup # "raised")
    => (/\ last.lookup = "found"
        /\ Has(last.trace, "deanonymize_text"))

\* C38: an anonymize request with the empty string as session id is
\* served as one without session id: the store is not read, a new id is
\* generated and returned in place of the empty string, and the store
\* never holds anything under the empty string.
C38_EmptySessionIdIsNone ==
    /\ store[""] = Null
    /\ (last.op = "anonymize" /\ last.req_session_id = "")
       => (/\ last.trace # << >> /\ last.trace[1] = "uuid4"
           /\ ~Has(last.trace, "get_state")
           /\ last.lookup = None /\ last.read = Null
           /\ last.status = 200
              => (/\ last.session_id \in {UuidPool[i] : i \in 1..generated}
                  /\ last.session_id # ""
                  /\ last.text = anonymize_text(last.req_text, Null).text))

C38_Witness ==
    /\ Anonymized(last) /\ last.req_session_id = ""
    /\ last.session_id = UuidPool[2]
    /\ store[last.session_id] = <<"Bob", "Alice">>

\* C39: in manual mode exactly one of the two inputs is enabled: the
\* person input at the start, the LLM input after a person submission
\* that was handled without error, the person input again after such an
\* LLM submission, and after a submission that failed the input it came
\* from.
C39_ExactlyOneInputEnabled ==
    client.mode = "manual"
    => (/\ client.person_disabled # client.llm_disabled
        /\ cres.input = None => ~client.person_disabled
        /\ (cres.input = "person_input" /\ cres.raised = None)
           => ~client.llm_disabled
        /\ (cres.input = "llm_input" /\ cres.raised = None)
           => ~client.person_disabled
        /\ (cres.input = "person_input" /\ cres.raised # None)
           => ~client.person_disabled
        /\ (cres.input = "llm_input" /\ cres.raised # None)
           => ~client.llm_disabled)

C39_Witness ==
    /\ client.mode = "manual"
    /\ cres.input = "llm_input" /\ cres.raised # None
    /\ ~client.llm_disabled /\ client.person_disabled

\* C40: when the deanonymize request of a submission is answered 404 the
\* client takes its session-expired path: it forgets its session id,
\* tells the person that the session expired and, in manual mode, gives
\* the turn back to the person input.
C40_SessionExpiredPath ==
    cres.deanonymize = "404"
    => (/\ client._session_id = None
        /\ cres.notice = "expired"
        /\ cres.raised = None
        /\ client.mode = "manual"
           => (~client.person_disabled /\ client.llm_disabled))
====
